---- MODULE Spec2Model ----
(***************************************************************************)
(* Smart Parking Lot Management System: the three tables of parking.db     *)
(* (slots, vehicles, payments) and the three handlers that write them      *)
(* (update_slots, submit, submit_exit of main_app.py).                     *)
(*                                                                         *)
(* Text is a sequence of one-character strings.  A table is the sequence   *)
(* of its rows in rowid order; no handler ever deletes a row.  A nullable  *)
(* column is <<>> for NULL and <<x>> for the value x.  An AUTOINCREMENT    *)
(* key is fresh and larger than every earlier key of its table (SQLite may *)
(* skip values after an ignored INSERT); the handlers only compare keys    *)
(* for equality, so a new row is given the least such key.  A wall-clock   *)
(* reading is a number of ticks, TicksPerSecond of them to the second, so  *)
(* that datetime.now() carries a sub-second part that strftime drops.      *)
(***************************************************************************)
EXTENDS Integers, Sequences, FiniteSets, TLC

VARIABLES
    slots,          \* table slots
    vehicles,       \* table vehicles
    payments,       \* table payments
    status_label,   \* the counts in the main window's status line
    main_table,     \* the rows of the main window's table
    shown           \* the message box of the handler last run

vars == <<slots, vehicles, payments, status_label, main_table, shown>>
db == <<slots, vehicles, payments>>
ui == <<status_label, main_table>>

----------------------------------------------------------------------------
(* Bounds of the model *)

MaxSlots == 2
TicksPerSecond == 2

(* Program constants *)

SecondsPerMinute == 60
rate_per_min == 1
main_table_limit == 50

----------------------------------------------------------------------------
(* Inputs *)

\* Text typed into the vehicle-number entry: blank, and two numbers, one of
\* them with surrounding blanks.
NumberEntries == { <<" ">>, <<" ", "A", " ">>, <<"B">> }

\* Text typed into the owner entry.
OwnerEntries == { <<"O", " ">> }

\* Text typed into the total-slots entry: an integer literal or other text.
TotalEntries ==
    { <<"int", n>> : n \in (-1)..MaxSlots } \cup { <<"text", 0>> }

\* Wall-clock readings, in ticks: one tick past 0 s, one tick short of 180 s,
\* one tick past 300 s.
Times ==
    { 1,
      3 * SecondsPerMinute * TicksPerSecond - 1,
      5 * SecondsPerMinute * TicksPerSecond + 1 }

----------------------------------------------------------------------------
(* Pure helpers *)

IsSpace(c) == c = " "

\* str.strip(): drop leading and trailing whitespace.
RECURSIVE lstrip(_)
lstrip(s) ==
    IF s # <<>> /\ IsSpace(Head(s)) THEN lstrip(Tail(s)) ELSE s

RECURSIVE rstrip(_)
rstrip(s) ==
    IF s # <<>> /\ IsSpace(s[Len(s)]) THEN rstrip(SubSeq(s, 1, Len(s) - 1)) ELSE s

strip(s) == rstrip(lstrip(s))

\* int(text): the value, or ValueError for text that is no integer literal.
RaisesValueError(e) == e[1] # "int"
int(e) == e[2]

\* f"Slot-{i}"
slot_name(i) == <<"Slot-", i>>

\* datetime.strftime(now, "%Y-%m-%d %H:%M:%S"): whole seconds, fraction dropped.
strftime(now) == now \div TicksPerSecond

\* datetime.strptime(text, "%Y-%m-%d %H:%M:%S"): the instant at that whole second.
strptime(secs) == secs * TicksPerSecond

\* Python's int(x / y) for y > 0: truncation toward zero.
TruncDiv(x, y) == IF x >= 0 THEN x \div y ELSE -((-x) \div y)

Max(a, b) == IF a >= b THEN a ELSE b

\* minutes = max(1, int((now - entry_dt).total_seconds() / 60))
MinutesNoClamp(entry_time, now) ==
    TruncDiv(now - strptime(entry_time), SecondsPerMinute * TicksPerSecond)
billable_minutes(entry_time, now) ==
    Max(1, TruncDiv(now - strptime(entry_time), SecondsPerMinute * TicksPerSecond))

\* amount = round(minutes * rate_per_min, 2), held in hundredths of a rupee.
compute_amount(minutes) == (minutes * rate_per_min) * 100

----------------------------------------------------------------------------
(* Queries *)

Rows(tbl) == 1..Len(tbl)

\* SELECT COUNT(*) FROM slots
total_slots(slts) == Len(slts)

\* ... FROM slots WHERE is_occupied=0   (rowids)
FreeRowsAll(slts) == Rows(slts)
free_rows(slts) == { k \in Rows(slts) : slts[k].is_occupied = 0 }

\* SELECT COUNT(*) FROM slots WHERE is_occupied=0
free_count(slts) == Cardinality(free_rows(slts))

\* vehicles rows with exit_time IS NULL
active_rows(vhs) == { k \in Rows(vhs) : vhs[k].exit_time = <<>> }

\* SELECT COUNT(*) FROM vehicles WHERE exit_time IS NULL
parked_count(vhs) == Cardinality(active_rows(vhs))

\* The UNIQUE constraint on vehicles.vehicle_number: an INSERT of vnum raises
\* sqlite3.IntegrityError when some row, active or closed, already holds it.
NoUniqueConstraint(vhs, vnum) == FALSE
violates_unique(vhs, vnum) ==
    \E k \in Rows(vhs) : vhs[k].vehicle_number = vnum

\* SELECT ... FROM vehicles v JOIN slots s ON v.slot_id = s.slot_id
\*   WHERE v.vehicle_number=? AND v.exit_time IS NULL      (rowids of v)
ExitQueryAnyRow(vhs, slts, vnum) ==
    { k \in Rows(vhs) :
        /\ vhs[k].vehicle_number = vnum
        /\ \E j \in Rows(slts) : slts[j].slot_id = vhs[k].slot_id }
exit_query(vhs, slts, vnum) ==
    { k \in Rows(vhs) :
        /\ vhs[k].vehicle_number = vnum
        /\ vhs[k].exit_time = <<>>
        /\ \E j \in Rows(slts) : slts[j].slot_id = vhs[k].slot_id }

----------------------------------------------------------------------------
(* Statements *)

\* INSERT OR IGNORE INTO slots (slot_number, is_occupied) VALUES (?, 0)
InsertOrReplace(slts, name) ==
    IF \E k \in Rows(slts) : slts[k].slot_number = name
    THEN [k \in Rows(slts) |->
            IF slts[k].slot_number = name
            THEN [slts[k] EXCEPT !.is_occupied = 0] ELSE slts[k]]
    ELSE Append(slts, [slot_id |-> Len(slts) + 1, slot_number |-> name,
                       is_occupied |-> 0])
insert_or_ignore(slts, name) ==
    IF \E k \in Rows(slts) : slts[k].slot_number = name
    THEN slts
    ELSE Append(slts, [slot_id |-> Len(slts) + 1, slot_number |-> name,
                       is_occupied |-> 0])

\* for i in range(i, total + 1): INSERT OR IGNORE slot_name(i)
RECURSIVE insert_range(_, _, _)
insert_range(slts, i, total) ==
    IF i > total THEN slts
    ELSE insert_range(insert_or_ignore(slts, slot_name(i)), i + 1, total)

\* UPDATE slots SET is_occupied=<occ> WHERE slot_id=?
SetOccupiedNoOp(slts, slot_id, occ) == slts
SetOccupiedEverySlot(slts, slot_id, occ) ==
    [k \in Rows(slts) |-> [slts[k] EXCEPT !.is_occupied = occ]]
set_occupied(slts, slot_id, occ) ==
    [k \in Rows(slts) |->
        IF slts[k].slot_id = slot_id
        THEN [slts[k] EXCEPT !.is_occupied = occ] ELSE slts[k]]

\* INSERT INTO vehicles (owner_name, vehicle_number, slot_id, entry_time)
insert_vehicle(vhs, owner, vnum, slot_id, entry_time) ==
    Append(vhs, [vehicle_id |-> Len(vhs) + 1, owner_name |-> owner,
                 vehicle_number |-> vnum, slot_id |-> slot_id,
                 entry_time |-> entry_time, exit_time |-> <<>>])

\* UPDATE vehicles SET exit_time=? WHERE vehicle_id=?
set_exit_time(vhs, vehicle_id, exit_time) ==
    [k \in Rows(vhs) |->
        IF vhs[k].vehicle_id = vehicle_id
        THEN [vhs[k] EXCEPT !.exit_time = <<exit_time>>] ELSE vhs[k]]

\* INSERT INTO payments (vehicle_id, amount, payment_time)
InsertPaymentNever(pays, vehicle_id, amount, payment_time) == pays
insert_payment(pays, vehicle_id, amount, payment_time) ==
    Append(pays, [payment_id |-> Len(pays) + 1, vehicle_id |-> vehicle_id,
                  amount |-> amount, payment_time |-> payment_time])

----------------------------------------------------------------------------
(* refresh_main_table and update_status_label *)

\* COUNT(*) of slots, of free slots, and of vehicles with no exit_time.
status_counts(slts, vhs) ==
    [total |-> total_slots(slts), free |-> free_count(slts),
     parked |-> parked_count(vhs)]

\* v LEFT JOIN slots s ON v.slot_id = s.slot_id: s.slot_number, or NULL.
joined_slot_number(slts, slot_id) ==
    IF \E j \in Rows(slts) : slts[j].slot_id = slot_id
    THEN <<slts[CHOOSE j \in Rows(slts) : slts[j].slot_id = slot_id].slot_number>>
    ELSE <<>>

\* One row of the main table; COALESCE(v.exit_time, '-').
table_row(slts, v) ==
    [vehicle_id |-> v.vehicle_id, vehicle_number |-> v.vehicle_number,
     slot_number |-> joined_slot_number(slts, v.slot_id),
     entry_time |-> v.entry_time,
     exit_time |-> IF v.exit_time = <<>> THEN <<"-">> ELSE v.exit_time]

\* ORDER BY v.vehicle_id DESC LIMIT 50
table_rows(slts, vhs) ==
    LET n == IF Len(vhs) <= main_table_limit THEN Len(vhs) ELSE main_table_limit
    IN [i \in 1..n |-> table_row(slts, vhs[Len(vhs) + 1 - i])]

refresh_main_table ==
    /\ main_table' = table_rows(slots', vehicles')
    /\ status_label' = status_counts(slots', vehicles')

-----------
(* What the handler last run showed: the message box (its title and the     *)
(* values in its text) of the operation with the inputs it read.  seq       *)
(* alternates so that two runs of one handler are two steps.                *)

Shown(op, vnum, total, title, slot, minutes, amount) ==
    [seq |-> 1 - shown.seq, op |-> op, vnum |-> vnum, total |-> total,
     title |-> title, slot |-> slot, minutes |-> minutes, amount |-> amount]

NoSlot == <<>>

Init ==
    /\ slots = <<>>
    /\ vehicles = <<>>
    /\ payments = <<>>
    /\ main_table = <<>>
    /\ status_label = [total |-> 0, free |-> 0, parked |-> 0]
    /\ shown = [seq |-> 0, op |-> "start", vnum |-> <<>>, total |-> 0,
                title |-> "", slot |-> NoSlot, minutes |-> 0, amount |-> 0]

----------------------------------------------------------------------------
(* add_slots_window.update_slots *)

update_slots(entry) ==
    IF RaisesValueError(entry) \/ int(entry) <= 0
    THEN /\ shown' = Shown("update_slots", <<>>,
                           IF RaisesValueError(entry) THEN 0 ELSE int(entry),
                           "Invalid", NoSlot, 0, 0)
         /\ UNCHANGED <<db, ui>>
    ELSE /\ slots' = insert_range(slots, 1, int(entry))
         /\ shown' = Shown("update_slots", <<>>, int(entry), " Success", NoSlot, 0, 0)
         /\ UNCHANGED <<vehicles, payments>>
         /\ refresh_main_table

----------------------------------------------------------------------------
(* add_vehicle_window.submit *)

submit(owner_entry, number_entry, now) ==
    LET owner == strip(owner_entry)
        vnum  == strip(number_entry)
    IN
    IF vnum = <<>>
    THEN /\ shown' = Shown("submit", vnum, 0, "Input", NoSlot, 0, 0)
         /\ UNCHANGED <<db, ui>>
    ELSE IF free_rows(slots) = {}
    THEN /\ shown' = Shown("submit", vnum, 0, "Full", NoSlot, 0, 0)
         /\ UNCHANGED <<db, ui>>
    ELSE \E row \in free_rows(slots) :       \* LIMIT 1 with no ORDER BY
         LET slot_id == slots[row].slot_id
             slot_no == slots[row].slot_number
             entry_time == strftime(now)
         IN
         IF violates_unique(vehicles, vnum)
         THEN \* sqlite3.IntegrityError: nothing was committed
              /\ shown' = Shown("submit", vnum, 0, "Error", NoSlot, 0, 0)
              /\ UNCHANGED <<db, ui>>
         ELSE /\ vehicles' = insert_vehicle(vehicles, owner, vnum, slot_id, entry_time)
              /\ slots' = set_occupied(slots, slot_id, 1)
              /\ shown' = Shown("submit", vnum, 0, "Parked", slot_no, 0, 0)
              /\ UNCHANGED payments
              /\ refresh_main_table

----------------------------------------------------------------------------
(* exit_vehicle_window.submit_exit *)

submit_exit(number_entry, now) ==
    LET vnum == strip(number_entry) IN
    IF vnum = <<>>
    THEN /\ shown' = Shown("submit_exit", vnum, 0, "Input", NoSlot, 0, 0)
         /\ UNCHANGED <<db, ui>>
    ELSE IF exit_query(vehicles, slots, vnum) = {}
    THEN /\ shown' = Shown("submit_exit", vnum, 0, "Not found", NoSlot, 0, 0)
         /\ UNCHANGED <<db, ui>>
    ELSE \E k \in exit_query(vehicles, slots, vnum) :     \* fetchone()
         LET vehicle_id == vehicles[k].vehicle_id
             slot_id    == vehicles[k].slot_id
             slot_no    == slots[CHOOSE j \in Rows(slots) :
                                 slots[j].slot_id = slot_id].slot_number
             minutes    == billable_minutes(vehicles[k].entry_time, now)
             amount     == compute_amount(minutes)
         IN
         /\ vehicles' = set_exit_time(vehicles, vehicle_id, strftime(now))
         /\ slots' = set_occupied(slots, slot_id, 0)
         /\ payments' = insert_payment(payments, vehicle_id, amount, strftime(now))
         /\ shown' = Shown("submit_exit", vnum, 0, "Payment", slot_no, minutes, amount)
         /\ refresh_main_table

----------------------------------------------------------------------------

Next ==
    \/ \E e \in TotalEntries : update_slots(e)
    \/ \E o \in OwnerEntries, n \in NumberEntries, t \in Times : submit(o, n, t)
    \/ \E n \in NumberEntries, t \in Times : submit_exit(n, t)

Spec == Init /\ [][Next]_vars

----------------------------------------------------------------------------
(* Vocabulary of the properties.  The error kinds are the titles of the     *)
(* message boxes the handlers raise.                                        *)

Conflict == "Error"
Full == "Full"
NotFound == "Not found"
Parked == "Parked"
Paid == "Payment"

IsParkCall(s) == s.op = "submit" /\ s.vnum # <<>>
IsExitCall(s) == s.op = "submit_exit" /\ s.vnum # <<>>
IsProvisionCall(s) == s.op = "update_slots"

SessionsOf(vhs, v) == { k \in 1..Len(vhs) : vhs[k].vehicle_number = v }
ActiveSessionsOf(vhs, v) == { k \in SessionsOf(vhs, v) : vhs[k].exit_time = <<>> }
ClosedSessionsOf(vhs, v) == { k \in SessionsOf(vhs, v) : vhs[k].exit_time # <<>> }
HasActive(vhs, v) == ActiveSessionsOf(vhs, v) # {}

FreeSlotIds(slts) == { slts[j].slot_id : j \in { i \in 1..Len(slts) : slts[i].is_occupied = 0 } }
OccupiedSlotIds(slts) == { slts[j].slot_id : j \in { i \in 1..Len(slts) : slts[i].is_occupied # 0 } }
ActiveOnSlot(vhs, id) ==
    { k \in 1..Len(vhs) : vhs[k].exit_time = <<>> /\ vhs[k].slot_id = id }
SlotIdOfLabel(slts, label) ==
    { slts[j].slot_id : j \in { i \in 1..Len(slts) : slts[i].slot_number = label } }
Labels(slts) == { slts[j].slot_number : j \in 1..Len(slts) }
IsPrefix(a, b) == Len(a) <= Len(b) /\ SubSeq(b, 1, Len(a)) = a
PaymentsOf(pays, id) == { p \in 1..Len(pays) : pays[p].vehicle_id = id }

\* The step appends one active session of v on slot id and changes no other row.
AddsOneActiveSession(v, id) ==
    /\ Len(vehicles') = Len(vehicles) + 1
    /\ IsPrefix(vehicles, vehicles')
    /\ vehicles'[Len(vehicles')].vehicle_number = v
    /\ vehicles'[Len(vehicles')].exit_time = <<>>
    /\ vehicles'[Len(vehicles')].slot_id = id

----------------------------------------------------------------------------
(* C1: parkVehicle(owner, v) with non-empty v that has no active session,   *)
(* called while at least one slot is free, succeeds: it adds exactly one    *)
(* active session of v on a slot that was free, marks that slot occupied    *)
(* and lowers the free-slot count by one -- also for a v whose earlier      *)
(* session was closed by exitVehicle.                                       *)

C1_ParkSucceedsWhenSlotFree ==
    [][ ( /\ IsParkCall(shown')
          /\ ~HasActive(vehicles, shown'.vnum)
          /\ FreeSlotIds(slots) # {} )
        => /\ shown'.title = Parked
           /\ \E id \in FreeSlotIds(slots) :
                /\ AddsOneActiveSession(shown'.vnum, id)
                /\ FreeSlotIds(slots') = FreeSlotIds(slots) \ {id}
                /\ OccupiedSlotIds(slots') = OccupiedSlotIds(slots) \cup {id}
           /\ Cardinality(FreeSlotIds(slots')) = Cardinality(FreeSlotIds(slots)) - 1
      ]_vars

----------------------------------------------------------------------------
(* C2, as claimed: parkVehicle(owner, v) for a v with an active session     *)
(* fails with Conflict, whether or not a slot is free, and changes nothing. *)

C2_ConflictBeforeFull ==
    [][ (IsParkCall(shown') /\ HasActive(vehicles, shown'.vnum))
        => (shown'.title = Conflict /\ UNCHANGED db) ]_vars

(* C2, amended: parkVehicle(owner, v) for a v with an active session fails  *)
(* and changes nothing; the failure is Conflict when a slot is free and     *)
(* Full when none is, the free-slot lookup coming first.                    *)

C2_ActiveVehicleRejected ==
    [][ (IsParkCall(shown') /\ HasActive(vehicles, shown'.vnum))
        => /\ UNCHANGED db
           /\ shown'.title = IF FreeSlotIds(slots) = {} THEN Full ELSE Conflict
      ]_vars

C2_Witness ==
    /\ IsParkCall(shown)
    /\ shown.title = Conflict
    /\ HasActive(vehicles, shown.vnum)
    /\ FreeSlotIds(slots) # {}

----------------------------------------------------------------------------
(* C3: exitVehicle(v) for a v with no active session, never parked or       *)
(* already exited, fails with NotFound and changes no slot, session or      *)
(* payment.                                                                 *)

C3_ExitWithoutActiveSession ==
    [][ (IsExitCall(shown') /\ ~HasActive(vehicles, shown'.vnum))
        => (shown'.title = NotFound /\ UNCHANGED db) ]_vars

\* A second exit of an already exited vehicle.
C3_Witness ==
    /\ IsExitCall(shown)
    /\ shown.title = NotFound
    /\ ClosedSessionsOf(vehicles, shown.vnum) # {}
    /\ Len(payments) = 1

----------------------------------------------------------------------------
(* C4: a slot is occupied iff exactly one active session references it; no  *)
(* two active sessions share a slot; the occupied slots are as many as the  *)
(* active sessions.                                                         *)

C4_OccupancyMatchesSessions ==
    /\ \A j \in 1..Len(slots) :
         /\ slots[j].is_occupied \in {0, 1}
         /\ Cardinality(ActiveOnSlot(vehicles, slots[j].slot_id)) <= 1
         /\ slots[j].is_occupied = 1
              <=> Cardinality(ActiveOnSlot(vehicles, slots[j].slot_id)) = 1
    /\ \A k \in 1..Len(vehicles) :
         vehicles[k].exit_time = <<>> => vehicles[k].slot_id \in OccupiedSlotIds(slots)
    /\ Cardinality(OccupiedSlotIds(slots))
         = Cardinality({ k \in 1..Len(vehicles) : vehicles[k].exit_time = <<>> })

\* One slot occupied, one free again after an exit.
C4_Witness ==
    /\ Cardinality(OccupiedSlotIds(slots)) = 1
    /\ Cardinality(FreeSlotIds(slots)) = 1
    /\ \E k \in 1..Len(vehicles) : vehicles[k].exit_time # <<>>
    /\ \E k \in 1..Len(vehicles) : vehicles[k].exit_time = <<>>

----------------------------------------------------------------------------
(* C5: a session has an exit timestamp iff exactly one payment references   *)
(* it; no payment references an active session; a recorded payment is       *)
(* never changed or removed, and a closed session is never re-opened.       *)

C5_BilledIffClosed ==
    /\ \A k \in 1..Len(vehicles) :
         /\ vehicles[k].exit_time # <<>>
              <=> Cardinality(PaymentsOf(payments, vehicles[k].vehicle_id)) = 1
         /\ vehicles[k].exit_time = <<>>
              => PaymentsOf(payments, vehicles[k].vehicle_id) = {}
    /\ \A p \in 1..Len(payments) :
         \E k \in 1..Len(vehicles) : vehicles[k].vehicle_id = payments[p].vehicle_id

C5_PaymentsKept ==
    /\ IsPrefix(payments, payments')
    /\ Len(payments') <= Len(payments) + 1
    /\ \A k \in 1..Len(vehicles) :
         vehicles[k].exit_time # <<>>
           => (k <= Len(vehicles') /\ vehicles'[k] = vehicles[k])
    /\ (IsExitCall(shown') /\ shown'.title = Paid)
         => /\ Len(payments') = Len(payments) + 1
            /\ \E k \in ActiveSessionsOf(vehicles, shown'.vnum) :
                 /\ payments'[Len(payments')].vehicle_id = vehicles[k].vehicle_id
                 /\ vehicles'[k].exit_time # <<>>

\* C5: in every state a session is closed iff exactly one payment references
\* it, and every step keeps the recorded payments and the closed sessions.
C5_OnePaymentPerClosedSession ==
    []C5_BilledIffClosed /\ [][C5_PaymentsKept]_vars

\* Two sessions billed, one after the other.
C5_Witness ==
    /\ Len(payments) = 2
    /\ payments[1].vehicle_id # payments[2].vehicle_id
    /\ \A k \in 1..Len(vehicles) : vehicles[k].exit_time # <<>>

----------------------------------------------------------------------------
(* C6: a successful exitVehicle(v) frees the slot of v's session and no     *)
(* other, so the free-slot count rises by one; a parkVehicle of another,    *)
(* never parked vehicle right after it, with that slot the only free one,   *)
(* succeeds and is given that slot.                                         *)

C6_ExitFreesItsSlot ==
    (IsExitCall(shown') /\ HasActive(vehicles, shown'.vnum))
    => /\ shown'.title = Paid
       /\ \E k \in ActiveSessionsOf(vehicles, shown'.vnum) :
            /\ vehicles[k].slot_id \in OccupiedSlotIds(slots)
            /\ FreeSlotIds(slots') = FreeSlotIds(slots) \cup {vehicles[k].slot_id}
            /\ OccupiedSlotIds(slots') = OccupiedSlotIds(slots) \ {vehicles[k].slot_id}
            /\ SlotIdOfLabel(slots, shown'.slot) = {vehicles[k].slot_id}
       /\ Cardinality(FreeSlotIds(slots')) = Cardinality(FreeSlotIds(slots)) + 1

C6_FreedSlotReassigned ==
    ( /\ IsExitCall(shown) /\ shown.title = Paid
      /\ IsParkCall(shown')
      /\ shown'.vnum # shown.vnum
      /\ SessionsOf(vehicles, shown'.vnum) = {}
      /\ FreeSlotIds(slots) = SlotIdOfLabel(slots, shown.slot) )
    => /\ shown'.title = Parked
       /\ shown'.slot = shown.slot
       /\ \E id \in SlotIdOfLabel(slots, shown.slot) :
            /\ AddsOneActiveSession(shown'.vnum, id)
            /\ id \in OccupiedSlotIds(slots')

\* C6: every step that is a successful exit frees exactly its slot, and every
\* park of a never parked vehicle right after it gets that only free slot.
C6_ExitThenReassign ==
    [][C6_ExitFreesItsSlot /\ C6_FreedSlotReassigned]_vars

\* The lot's only slot, left by one vehicle and now held by another.
C6_Witness ==
    /\ Len(slots) = 1
    /\ IsParkCall(shown) /\ shown.title = Parked
    /\ \E k \in 1..Len(vehicles) :
         /\ vehicles[k].exit_time # <<>>
         /\ vehicles[k].vehicle_number # shown.vnum
         /\ SlotIdOfLabel(slots, shown.slot) = {vehicles[k].slot_id}
    /\ \E k \in ActiveSessionsOf(vehicles, shown.vnum) :
         SlotIdOfLabel(slots, shown.slot) = {vehicles[k].slot_id}

----------------------------------------------------------------------------
(* C7: for every closed session with entry time T0 and exit time T1 in      *)
(* whole seconds, the billed minutes are max(1, floor((T1 - T0) / 60)) and  *)
(* the recorded amount is minutes times the rate of 1 per minute (held in   *)
(* hundredths): under a minute is billed 1 minute, 5 minutes 5.00.          *)

FloorMinutes(t0, t1) ==
    IF (t1 - t0) \div 60 >= 1 THEN (t1 - t0) \div 60 ELSE 1

C7_FeeFromDuration ==
    /\ \A p \in 1..Len(payments) :
         \A k \in 1..Len(vehicles) :
           vehicles[k].vehicle_id = payments[p].vehicle_id
           => /\ vehicles[k].exit_time # <<>>
              /\ payments[p].amount
                   = 100 * FloorMinutes(vehicles[k].entry_time, vehicles[k].exit_time[1])
    /\ (IsExitCall(shown) /\ shown.title = Paid)
         => /\ payments # <<>>
            /\ shown.amount = payments[Len(payments)].amount
            /\ shown.amount = 100 * shown.minutes
            /\ \E k \in ClosedSessionsOf(vehicles, shown.vnum) :
                 /\ vehicles[k].vehicle_id = payments[Len(payments)].vehicle_id
                 /\ shown.minutes
                      = FloorMinutes(vehicles[k].entry_time, vehicles[k].exit_time[1])

\* One stay of 5 minutes billed 5.00 and one of under a minute billed 1.00.
C7_Witness ==
    /\ \E p \in 1..Len(payments), k \in 1..Len(vehicles) :
         /\ vehicles[k].vehicle_id = payments[p].vehicle_id
         /\ vehicles[k].exit_time[1] - vehicles[k].entry_time = 300
         /\ payments[p].amount = 500
    /\ \E p \in 1..Len(payments), k \in 1..Len(vehicles) :
         /\ vehicles[k].vehicle_id = payments[p].vehicle_id
         /\ vehicles[k].exit_time[1] - vehicles[k].entry_time \in 0..59
         /\ payments[p].amount = 100

----------------------------------------------------------------------------
(* C8: parkVehicle with non-empty v that has no active session, called      *)
(* while no slot is free (none provisioned included), fails with Full and   *)
(* changes no slot, session or payment.                                     *)

C8_FullWhenNoSlotFree ==
    [][ ( /\ IsParkCall(shown')
          /\ ~HasActive(vehicles, shown'.vnum)
          /\ FreeSlotIds(slots) = {} )
        => (shown'.title = Full /\ UNCHANGED db) ]_vars

\* Every provisioned slot is taken and another vehicle is turned away.
C8_Witness ==
    /\ IsParkCall(shown) /\ shown.title = Full
    /\ ~HasActive(vehicles, shown.vnum)
    /\ slots # <<>>
    /\ FreeSlotIds(slots) = {}

----------------------------------------------------------------------------
(* C9: provisionSlots(N) for positive N is insert-if-absent and idempotent: *)
(* it keeps every slot and its occupancy, adds the missing labels of        *)
(* Slot-1..Slot-N, a second call with N adds nothing, and a call with N no  *)
(* larger than the slot count changes nothing; from an empty lot the labels *)
(* are exactly Slot-1..Slot-N.  With N <= 0 it fails with a validation      *)
(* error and changes nothing.                                               *)

C9_ProvisionStep ==
    IsProvisionCall(shown')
    => IF shown'.total >= 1
       THEN /\ shown'.title = " Success"
            /\ IsPrefix(slots, slots')
            /\ Labels(slots') = Labels(slots) \cup { slot_name(i) : i \in 1..shown'.total }
            /\ Cardinality(Labels(slots')) = Len(slots')
            /\ \A j \in (Len(slots) + 1)..Len(slots') : slots'[j].is_occupied = 0
            /\ insert_range(slots', 1, shown'.total) = slots'
            /\ (shown'.total <= Len(slots) => slots' = slots)
            /\ (slots = <<>> => Len(slots') = shown'.total)
            /\ UNCHANGED <<vehicles, payments>>
       ELSE /\ shown'.title = "Invalid"
            /\ UNCHANGED db

\* C9: every provisionSlots step is insert-if-absent and idempotent, or is
\* rejected without change when the total is not positive.
C9_ProvisionIdempotent == [][C9_ProvisionStep]_vars

\* A smaller total asked for while a slot is occupied.
C9_Witness ==
    /\ IsProvisionCall(shown) /\ shown.title = " Success"
    /\ shown.total < Len(slots)
    /\ OccupiedSlotIds(slots) # {}

----------------------------------------------------------------------------
(* C10: each vehicle identifier has at most one session with no exit        *)
(* timestamp.                                                               *)

C10_AtMostOneActiveSession ==
    \A k1, k2 \in 1..Len(vehicles) :
        ( /\ vehicles[k1].vehicle_number = vehicles[k2].vehicle_number
          /\ vehicles[k1].exit_time = <<>>
          /\ vehicles[k2].exit_time = <<>> )
        => k1 = k2

\* A parked vehicle was offered again while another slot was free.
C10_Witness ==
    /\ IsParkCall(shown) /\ shown.title = Conflict
    /\ Cardinality(ActiveSessionsOf(vehicles, shown.vnum)) = 1
    /\ Cardinality(FreeSlotIds(slots)) = 1
    /\ Len(vehicles) = 1

====
